---- MODULE Spec2Model ----
(***************************************************************************)
(* Model of files_mover.py: class FilesSeparator, which distributes the    *)
(* files of a work folder over numbered subfolders.                        *)
(*                                                                         *)
(* The process state is the current working directory (changed by          *)
(* os.chdir in __init__), the file system (two folders, their file         *)
(* entries in enumeration order and their subfolders) and the instances    *)
(* bound to two program variables.  A call (__init__, move) is one action: *)
(* the program is single-threaded and synchronous.  The file-system        *)
(* operations a call performs are recorded, in order, in last.trace.       *)
(*                                                                         *)
(* File names are sequences of one-character strings, so that str(),       *)
(* os.path.splitext and the lexicographic comparison of names are computed *)
(* as Python computes them.                                                *)
(***************************************************************************)
EXTENDS Integers, Sequences, FiniteSets, TLC

----------------------------------------------------------------------------
(* Bounds of the model                                                     *)

\* largest number of files a folder holds initially
MaxFiles == 3
\* largest batch size passed to the constructor
MaxNum == 2
\* largest start_folder_num passed to the constructor
MaxStart == 2

----------------------------------------------------------------------------
(* Strings                                                                 *)

\* code points of the characters that occur in the model's names
Ord(c) ==
    CASE c = "-" -> 45
      [] c = "." -> 46
      [] c = "0" -> 48 [] c = "1" -> 49 [] c = "2" -> 50 [] c = "3" -> 51
      [] c = "4" -> 52 [] c = "5" -> 53 [] c = "6" -> 54 [] c = "7" -> 55
      [] c = "8" -> 56 [] c = "9" -> 57
      [] c = "_" -> 95
      [] c = "a" -> 97 [] c = "b" -> 98 [] c = "c" -> 99 [] c = "d" -> 100
      [] c = "e" -> 101 [] c = "f" -> 102 [] c = "i" -> 105 [] c = "l" -> 108
      [] c = "m" -> 109 [] c = "o" -> 111 [] c = "p" -> 112 [] c = "r" -> 114
      [] c = "s" -> 115 [] c = "t" -> 116 [] c = "v" -> 118 [] c = "x" -> 120
      [] c = "y" -> 121

\* SCRIPT_NAME = "files_mover.py"
SCRIPT_NAME == <<"f","i","l","e","s","_","m","o","v","e","r",".","p","y">>

\* the default of the parameter start_folder_name, "folder-"
DefaultFolderName == <<"f","o","l","d","e","r","-">>

\* the default of the parameter num
DefaultNum == 50

\* the default of the parameter start_folder_num
DefaultStart == 1

\* the decimal digit d as a character
Digit(d) == CASE d = 0 -> "0" [] d = 1 -> "1" [] d = 2 -> "2" [] d = 3 -> "3"
              [] d = 4 -> "4" [] d = 5 -> "5" [] d = 6 -> "6" [] d = 7 -> "7"
              [] d = 8 -> "8" [] d = 9 -> "9"

RECURSIVE NatStr(_)
NatStr(n) == IF n < 10 THEN <<Digit(n)>>
             ELSE NatStr(n \div 10) \o <<Digit(n % 10)>>

\* str(n) of an int, as an f-string field {n} formats it
IntStr(n) == IF n < 0 THEN <<"-">> \o NatStr(0 - n) ELSE NatStr(n)

\* Python's a // b (floor division), b # 0
PyFloorDiv(a, b) == IF b > 0 THEN a \div b ELSE (0 - a) \div (0 - b)

\* Python's a % b (sign of the divisor), b # 0
PyMod(a, b) == IF b > 0 THEN a % b ELSE 0 - ((0 - a) % (0 - b))

\* the code points of a string
Codes(str) == [k \in 1..Len(str) |-> Ord(str[k])]

\* Python's < on sequences of comparable items (strings by code point)
RECURSIVE LexLess(_, _)
LexLess(x, y) ==
    IF y = <<>> THEN FALSE
    ELSE IF x = <<>> THEN TRUE
    ELSE IF Head(x) # Head(y) THEN Head(x) < Head(y)
    ELSE LexLess(Tail(x), Tail(y))

\* str.rfind("."), 0-based, -1 when there is no dot
RFindDot(p) ==
    LET dots == {k \in 1..Len(p) : p[k] = "."}
    IN  IF dots = {} THEN -1
        ELSE (CHOOSE k \in dots : \A m \in dots : m <= k) - 1

\* os.path.splitext(p)[1] for a name without separators: the part from the
\* last dot on, unless only dots precede that dot
SplitExt(p) ==
    LET dotIndex == RFindDot(p)
    IN  IF dotIndex > -1 /\ \E k \in 0..(dotIndex - 1) : p[k + 1] # "."
        THEN SubSeq(p, dotIndex + 1, Len(p))
        ELSE <<>>

----------------------------------------------------------------------------
(* The file system and the process                                         *)

\* the folders of the model: Home is where the program starts (the folder of
\* the script), Other is a second folder
Home == "B"
Other == "A"
Dirs == {Home, Other}

\* names files may have; a folder holds the first MaxFiles of them at most
NamePool == << <<"b",".","t","x","t">>, <<"a",".","t","x","t">>, <<"c">>,
               <<"c",".","t","x","t">>, <<"d",".","p","y">> >>

FileNames == {NamePool[k] : k \in 1..MaxFiles}

\* position of a name in NamePool
PoolIndex(f) == CHOOSE k \in 1..Len(NamePool) : NamePool[k] = f

\* what os.path.getctime, getmtime and getsize return for the file f of
\* folder d: fixed per file, different in the two folders, with ties
StatTable ==
    [A |-> [ctime |-> <<1, 1, 2>>, mtime |-> <<3, 2, 1>>, size |-> <<2, 1, 1>>],
     B |-> [ctime |-> <<2, 1, 1>>, mtime |-> <<1, 2, 3>>, size |-> <<1, 2, 2>>]]

Stat(d, f, attr) ==
    LET tab == StatTable[d][attr]
    IN  tab[((PoolIndex(f) - 1) % Len(tab)) + 1]

VARIABLES
    cwd,      \* the process's current working directory
    fs,       \* fs[d]: [files: the file entries of folder d in enumeration
              \*         order, subdirs: the names of its subfolders,
              \*         inside: the pairs <<subfolder, file>> of files in them]
    inst,     \* inst[v]: the FilesSeparator bound to program variable v, if any
    last      \* the last call: which, on which variable, how it ended, and
              \* the file-system operations it performed, in order

vars == <<cwd, fs, inst, last>>

\* the program variables that hold instances
Vars == {"x", "y"}

\* Python's None
None == "<None>"

\* a program variable no instance is bound to
Unbound == [bound |-> FALSE]

\* the set of the elements of a sequence
Range(s) == {s[k] : k \in 1..Len(s)}

\* the sequences without repetition over S of length at most n
Listings(S, n) ==
    {s \in UNION {[1..k -> S] : k \in 0..n} :
        \A a, b \in 1..Len(s) : a # b => s[a] # s[b]}

\* os.listdir(d): the names of all entries of d
ListDir(fsys, d) == Range(fsys[d].files) \cup fsys[d].subdirs

\* next(os.walk(d))[2]: the names of the non-directory entries of d
WalkFiles(fsys, d) == fsys[d].files

\* whether the relative path f names an entry of folder d
Exists(fsys, d, f) == f \in ListDir(fsys, d)

\* s without its first occurrence of x (list.remove)
RECURSIVE Remove(_, _)
Remove(s, x) ==
    IF s = <<>> THEN <<>>
    ELSE IF Head(s) = x THEN Tail(s)
    ELSE <<Head(s)>> \o Remove(Tail(s), x)

----------------------------------------------------------------------------
(* class SortingVariables                                                  *)

SortingVariables ==
    {"RANDOM", "CREATING_DATE", "MODIFICATION_DATE", "NAME", "FILE_SIZE",
     "FILE_TYPE"}

\* the value of an enum member; RANDOM's is Python's None
EnumValue(member) ==
    CASE member = "RANDOM" -> None
      [] member = "CREATING_DATE" -> "ctime"
      [] member = "MODIFICATION_DATE" -> "mtime"
      [] member = "NAME" -> "name"
      [] member = "FILE_SIZE" -> "size"
      [] member = "FILE_TYPE" -> "type"

\* str(sorting) for the parameter sorting: a member of SortingVariables
\* (whose __str__ returns its value), or None.  The result is a string, or
\* "TypeError" when __str__ returns a non-string.
StrSorting(sorting) ==
    IF sorting = None THEN [err |-> "ok", str |-> "None"]
    ELSE IF EnumValue(sorting) = None THEN [err |-> "TypeError", str |-> ""]
    ELSE [err |-> "ok", str |-> EnumValue(sorting)]

----------------------------------------------------------------------------
(* FilesSeparator._sort_files                                              *)

\* the keys of the dict sorting_vars
SortingKeys == {"ctime", "mtime", "name", "size", "type"}

\* whether sorting_vars[sorting] reads the file's metadata
ReadsStat(sorting) == sorting \in {"ctime", "mtime", "size"}

\* sorting_vars[sorting](f), evaluated with current directory d: the
\* names in _files are relative paths.  Numbers are one-element sequences,
\* strings their code points, so that LexLess compares both.
SortKey(sorting, d, f) ==
    CASE sorting = "ctime" -> <<Stat(d, f, "ctime")>>
      [] sorting = "mtime" -> <<Stat(d, f, "mtime")>>
      [] sorting = "name" -> Codes(f)
      [] sorting = "size" -> <<Stat(d, f, "size")>>
      [] sorting = "type" -> Codes(SplitExt(f))

\* whether x goes before y in the order list.sort(key, reverse) produces
Before(keys, reverse, x, y) ==
    IF reverse THEN LexLess(keys[y], keys[x]) ELSE LexLess(keys[x], keys[y])

\* x put into the sorted list s behind every element it does not go before
\* (so equal keys keep their order)
Insert(keys, reverse, s, x) ==
    LET later == {k \in 1..Len(s) : Before(keys, reverse, x, s[k])}
        p == IF later = {} THEN Len(s) + 1
             ELSE CHOOSE k \in later : \A m \in later : k <= m
    IN  SubSeq(s, 1, p - 1) \o <<x>> \o SubSeq(s, p, Len(s))

\* list.sort(key=..., reverse=...): stable, also when reverse is true
RECURSIVE StableSort(_, _, _, _)
StableSort(keys, reverse, done, rest) ==
    IF rest = <<>> THEN done
    ELSE StableSort(keys, reverse, Insert(keys, reverse, done, Head(rest)),
                    Tail(rest))

\* _sort_files of instance self with current directory d: the new _files, or
\* FileNotFoundError when a key function reads a path that does not exist
\* (list.sort then leaves the list as it was)
SortFiles(self, fsys, d) ==
    IF self.sorting \in SortingKeys
    THEN IF ReadsStat(self.sorting)
            /\ \E f \in Range(self.files) : ~Exists(fsys, d, f)
         THEN [err |-> "FileNotFoundError", files |-> self.files]
         ELSE LET keys == [f \in Range(self.files) |->
                              SortKey(self.sorting, d, f)]
              IN  [err |-> "ok",
                   files |-> StableSort(keys, self.reverse, <<>>, self.files)]
    ELSE [err |-> "ok", files |-> self.files]

----------------------------------------------------------------------------
(* FilesSeparator.__init__                                                 *)

\* MaxFolderNum without the folder for the remainder
MaxFolderNumFloor(len, num) == PyFloorDiv(len, num)

\* _max_folder_num, as __init__ computes it from len(_files) and num # 0
MaxFolderNum(len, num) ==
    PyFloorDiv(len, num) + (IF PyMod(len, num) # 0 THEN 1 ELSE 0)

\* the record of a call: the arguments num and sorting matter for __init__
\* only; again tells whether an earlier move of the instance had completed;
\* batch is the batch index at which move raised (-1: before the loop, or
\* not at all); pre is the file system before the call
Call(call, v, num, sorting, again, err, batch, trace) ==
    [call |-> call, var |-> v, num |-> num, sorting |-> sorting,
     again |-> again, err |-> err, batch |-> batch, trace |-> trace,
     pre |-> fs]

\* v = FilesSeparator(work_folder, num, start_folder_name, start_folder_num,
\*                    sorting, reverse)
\* work_folder is None or an existing folder.  os.chdir comes first, so an
\* __init__ that raises later has still changed the current directory; v is
\* then not (re)bound.
Construct(v, work_folder, num, start_folder_name, start_folder_num, sorting, reverse) ==
    LET d == IF work_folder # None THEN work_folder ELSE cwd
        walked == WalkFiles(fs, d)
        files == IF SCRIPT_NAME \in Range(walked)
                 THEN Remove(walked, SCRIPT_NAME) ELSE walked
        str == StrSorting(sorting)
        err == IF num = 0 THEN "ZeroDivisionError" ELSE str.err
    IN  /\ cwd' = d
        /\ fs' = fs
        /\ last' = Call("init", v, num, sorting, FALSE, err, -1, <<>>)
        /\ inst' = IF err # "ok" THEN inst
                   ELSE [inst EXCEPT ![v] =
                            [bound |-> TRUE,
                             work_folder |-> d,
                             files |-> files,
                             n |-> num,
                             start_folder_name |-> start_folder_name,
                             start_folder_num |-> start_folder_num,
                             max_folder_num |-> MaxFolderNum(Len(files), num),
                             sorting |-> str.str,
                             reverse |-> reverse,
                             \* history: _files as discovered, and whether a
                             \* move of this instance has completed
                             discovered |-> files,
                             completed |-> FALSE]]

----------------------------------------------------------------------------
(* FilesSeparator.info                                                     *)

\* FolderName numbering from 1 whatever start_folder_num is
FolderNameFromOne(self, i) == self.start_folder_name \o IntStr(i + 1)

\* the name of the destination folder of batch i
FolderName(self, i) ==
    self.start_folder_name \o IntStr(i + self.start_folder_num)

info(self) ==
    [current_directory |-> self.work_folder,
     number_of_files |-> Len(self.files),
     number_of_folders_to_create |-> self.max_folder_num,
     start_folder |-> self.start_folder_name \o IntStr(self.start_folder_num),
     end_folder |-> self.start_folder_name
                      \o IntStr(self.max_folder_num + self.start_folder_num - 1)]

----------------------------------------------------------------------------
(* FilesSeparator.move                                                     *)

\* one performed file-system operation: op on the entry name of folder dir
\* (for a rename: the file f goes to into/f), for batch i
Op(op, dir, name, into, i) ==
    [op |-> op, dir |-> dir, name |-> name, into |-> into, batch |-> i]

\* os.mkdir(folder) with current directory d
Mkdir(m, d, folder, i) ==
    IF Exists(m.fs, d, folder)
    THEN [m EXCEPT !.err = "FileExistsError", !.batch = i]
    ELSE [m EXCEPT !.fs[d].subdirs = @ \cup {folder},
                   !.trace = Append(@, Op("mkdir", d, folder, <<>>, i))]

\* os.rename(f, folder/f) with current directory d; the model's file names
\* are never names of folders
Rename(m, d, f, folder, i) ==
    IF f \notin Range(m.fs[d].files) \/ folder \notin m.fs[d].subdirs
    THEN [m EXCEPT !.err = "FileNotFoundError", !.batch = i]
    ELSE [m EXCEPT !.fs[d].files = Remove(@, f),
                   !.fs[d].inside = @ \cup {<<folder, f>>},
                   !.trace = Append(@, Op("rename", d, f, folder, i))]

\* for j in range(i * n, (i + 1) * n): rename while j < len(_files), else break
RECURSIVE MoveBatch(_, _, _, _, _, _)
MoveBatch(self, d, folder, i, j, m) ==
    IF j >= (i + 1) * self.n \/ j >= Len(self.files) THEN m
    ELSE LET r == Rename(m, d, self.files[j + 1], folder, i)
         IN  IF r.err # "ok" THEN r
             ELSE MoveBatch(self, d, folder, i, j + 1, r)

\* for i in range(0, _max_folder_num): the collision check reads the
\* stored work folder, mkdir and rename take paths relative to d, the
\* current directory
RECURSIVE MoveLoop(_, _, _, _)
MoveLoop(self, d, i, m) ==
    IF i >= self.max_folder_num THEN m
    ELSE LET folder == FolderName(self, i)
             checked == [m EXCEPT !.trace = Append(@,
                            Op("listdir", self.work_folder, folder, <<>>, i))]
         IN  IF folder \in ListDir(m.fs, self.work_folder)
             THEN [checked EXCEPT !.err = "ValueError: Folder already exists!",
                                  !.batch = i]
             ELSE LET made == Mkdir(checked, d, folder, i)
                  IN  IF made.err # "ok" THEN made
                      ELSE LET moved == MoveBatch(self, d, folder, i,
                                                  i * self.n, made)
                           IN  IF moved.err # "ok" THEN moved
                               ELSE MoveLoop(self, d, i + 1, moved)

\* NoFiles with the check left out
NoFilesNever(self) == FALSE

\* if not self._files
NoFiles(self) == self.files = <<>>

\* v.move()
Move(v) ==
    /\ inst[v].bound
    /\ LET self == inst[v]
           sorted == SortFiles(self, fs, cwd)
           start == [fs |-> fs, trace |-> <<>>, err |-> "ok", batch |-> -1]
           m == IF NoFiles(self)
                THEN [start EXCEPT !.err = "ValueError: No files to move!"]
                ELSE IF sorted.err # "ok"
                THEN [start EXCEPT !.err = sorted.err]
                ELSE MoveLoop([self EXCEPT !.files = sorted.files], cwd, 0,
                              start)
       IN  /\ fs' = m.fs
           /\ inst' = [inst EXCEPT ![v].files =
                                      IF NoFiles(self) THEN @
                                      ELSE sorted.files,
                                   ![v].completed = @ \/ m.err = "ok"]
           /\ last' = Call("move", v, 0, None, self.completed, m.err, m.batch,
                             m.trace)
           /\ cwd' = cwd

----------------------------------------------------------------------------
(* The program                                                             *)

\* a destination folder name that may exist before the program starts
PreFolder == DefaultFolderName \o IntStr(2)

\* the folders the program starts with: Home holds the script and the first
\* files of the pool, Other holds files in any enumeration order and possibly
\* a subfolder with the name of a destination folder
Init ==
    /\ cwd = Home
    /\ \E fo \in Listings(FileNames, MaxFiles), po \in SUBSET {PreFolder},
          k \in 0..MaxFiles :
         fs = [d \in Dirs |->
                 IF d = Home
                 THEN [files |-> <<SCRIPT_NAME>> \o SubSeq(NamePool, 1, k),
                       subdirs |-> {}, inside |-> {}]
                 ELSE [files |-> fo, subdirs |-> po, inside |-> {}]]
    /\ inst = [v \in Vars |-> Unbound]
    /\ last = [call |-> "none", var |-> "", num |-> 0, sorting |-> None,
               again |-> FALSE, err |-> "ok", batch |-> -1, trace |-> <<>>,
               pre |-> fs]

\* the arguments the model passes to the constructor
NumValues == (-1)..MaxNum
StartValues == 1..MaxStart
SortingValues == SortingVariables \cup {None}

\* y = FilesSeparator(work_folder, sorting=sorting): the defaults of the
\* other parameters; work_folder may be left out too
ConstructDefault(sorting) ==
    \E work_folder \in Dirs \cup {None} :
        Construct("y", work_folder, DefaultNum, DefaultFolderName,
                  DefaultStart, sorting, FALSE)

\* the program: each variable is assigned once (a constructor call that
\* raises assigns nothing and may be followed by another).  x is constructed
\* for a folder with any batch size and start number of the model, y with
\* the defaults, in any order with their moves.
Next ==
    \/ /\ ~inst["x"].bound
       /\ \E work_folder \in Dirs, num \in NumValues,
             start_folder_num \in StartValues, sorting \in {"FILE_SIZE", None} :
            Construct("x", work_folder, num, DefaultFolderName,
                      start_folder_num, sorting, FALSE)
    \/ /\ ~inst["y"].bound
       /\ \E sorting \in {"RANDOM", None} : ConstructDefault(sorting)
    \/ \E v \in Vars : Move(v)

Spec == Init /\ [][Next]_vars

\* the program with every sort key and reverse setting for x, and one batch
\* size and start number
NextSort ==
    \/ /\ ~inst["x"].bound
       /\ \E work_folder \in Dirs, sorting \in SortingValues,
             reverse \in BOOLEAN :
            Construct("x", work_folder, MaxNum, DefaultFolderName,
                      DefaultStart, sorting, reverse)
    \/ ConstructDefault("RANDOM")
    \/ Move("x")

SpecSort == Init /\ [][NextSort]_vars

----------------------------------------------------------------------------
(* Properties                                                              *)

\* the instance the last call was made on
LastSelf == inst[last.var]

MoveEnded == last.call = "move"
MoveCompleted == last.call = "move" /\ last.err = "ok"

\* the folder creations among the operations of the last call, in order
Created == SelectSeq(last.trace, LAMBDA o : o.op = "mkdir")

\* the files now in subfolder F of folder d
FilesIn(d, F) == {p \in fs[d].inside : p[1] = F}

\* ceil(n / num) for n >= 0, num > 0
Ceil(n, num) == CHOOSE k \in 0..n : k * num >= n /\ (k - 1) * num < n

\* position of f in the sequence s
IndexIn(s, f) == CHOOSE k \in 1..Len(s) : s[k] = f

\* C1: a move that completes on n >= 1 files with batch size num > 0 has
\* created exactly ceil(n / num) folders; each but the last holds num files,
\* the last holds n mod num files if that is not 0 and num files otherwise.
C1_FolderCountAndSizes ==
    (MoveCompleted /\ LastSelf.n > 0) =>
        LET n == Len(LastSelf.discovered)
            num == LastSelf.n
        IN  /\ Len(Created) = Ceil(n, num)
            /\ \A k \in 1..Len(Created) :
                 Cardinality(FilesIn(Created[k].dir, Created[k].name)) =
                    IF k < Len(Created) \/ n % num = 0 THEN num ELSE n % num

\* a move of 3 files in batches of 2 has completed: folders of 2 and 1 files
C1_Witness ==
    /\ MoveCompleted
    /\ LastSelf.n = 2
    /\ Len(LastSelf.discovered) = 3
    /\ Len(Created) = 2

\* C2: when move completes, every file discovered at construction is in
\* exactly one destination folder of the work folder, under its name, and
\* none is left directly in the work folder.
C2_Partition ==
    MoveCompleted =>
        LET self == LastSelf
            dest == {FolderName(self, i) : i \in 0..(self.max_folder_num - 1)}
        IN  \A f \in Range(self.discovered) :
              /\ Cardinality({F \in dest :
                    <<F, f>> \in fs[self.work_folder].inside}) = 1
              /\ f \notin Range(fs[self.work_folder].files)

\* C3: when move raises the conflict error at batch i, it has created no
\* folder for batch i and relocated no file of batch i or later; the files
\* of the batches before i are in their destination folders and the files
\* of batch i and later are still in the work folder.
C3_ConflictAbort ==
    (MoveEnded /\ last.err = "ValueError: Folder already exists!") =>
        LET self == LastSelf
            i == last.batch
            wf == self.work_folder
        IN  /\ \A p \in 1..Len(last.trace) :
                 last.trace[p].op \in {"mkdir", "rename"}
                    => last.trace[p].batch < i
            /\ \A j \in 0..(Len(self.files) - 1) :
                 LET f == self.files[j + 1]
                 IN  IF j < i * self.n
                     THEN <<FolderName(self, j \div self.n), f>>
                             \in fs[wf].inside
                     ELSE f \in Range(last.pre[wf].files)
                             => f \in Range(fs[wf].files)

\* C4: every file-system operation of a move (collision check, folder
\* creation, file relocation) acts on the work folder resolved at
\* construction.
C4_WorkFolderOps ==
    MoveEnded =>
        \A p \in 1..Len(last.trace) :
            last.trace[p].dir = LastSelf.work_folder

\* C5: constructing with sorting = SortingVariables.RANDOM (the default)
\* yields an instance, and a move of an instance without sort key leaves
\* the files in their enumeration order, whatever reverse is.
C5_DefaultNoSort ==
    /\ (last.call = "init" /\ last.sorting = "RANDOM" /\ last.num # 0)
          => (last.err = "ok" /\ LastSelf.bound)
    /\ \A v \in Vars :
          (inst[v].bound /\ inst[v].sorting \notin SortingKeys)
             => inst[v].files = inst[v].discovered

\* C6: no instance has a batch size num <= 0: constructing with such a
\* num fails.
C6_PositiveNum ==
    /\ \A v \in Vars : inst[v].bound => inst[v].n > 0
    /\ (last.call = "init" /\ last.num <= 0) => last.err # "ok"

\* whether the sort step of the last move ran to its end
SortDone ==
    /\ MoveEnded
    /\ last.err # "ValueError: No files to move!"
    /\ ~(last.err = "FileNotFoundError" /\ last.batch = -1)

\* C7: after the sort step with a sort key, the files are a permutation of
\* the discovered files, ascending by the key of the work folder's files
\* (descending when reverse), files with equal keys in enumeration order.
C7_SortedStable ==
    (SortDone /\ LastSelf.sorting \in SortingKeys) =>
        LET self == LastSelf
            key(f) == SortKey(self.sorting, self.work_folder, f)
            n == Len(self.files)
        IN  /\ n = Len(self.discovered)
            /\ Range(self.files) = Range(self.discovered)
            /\ \A p, q \in 1..n :
                 p < q =>
                    /\ IF self.reverse
                       THEN ~LexLess(key(self.files[p]), key(self.files[q]))
                       ELSE ~LexLess(key(self.files[q]), key(self.files[p]))
                    /\ key(self.files[p]) = key(self.files[q])
                          => IndexIn(self.discovered, self.files[p])
                                < IndexIn(self.discovered, self.files[q])

\* C8: the k-th folder a move creates (k = 0, 1, ...) is named
\* start_folder_name followed by start_folder_num + k; batches are handled
\* in ascending order: a file is relocated only into the folder created
\* last, and when the folder of batch k + 1 is created every file of batch
\* k has been relocated.
C8_NamingAndOrder ==
    MoveEnded =>
        LET self == LastSelf
            tr == last.trace
            \* number of folders created before position p
            made(p) == Cardinality({q \in 1..(p - 1) : tr[q].op = "mkdir"})
            batch(k) == {j \in 0..(Len(self.files) - 1) :
                            k * self.n <= j /\ j < (k + 1) * self.n}
        IN  \A p \in 1..Len(tr) :
              /\ tr[p].op = "mkdir" =>
                    /\ tr[p].name = self.start_folder_name
                          \o IntStr(self.start_folder_num + made(p))
                    /\ made(p) > 0 =>
                          \A j \in batch(made(p) - 1) :
                             \E q \in 1..(p - 1) :
                                /\ tr[q].op = "rename"
                                /\ tr[q].name = self.files[j + 1]
                                /\ made(q) = made(p)
              /\ tr[p].op = "rename" =>
                    /\ made(p) > 0
                    /\ tr[p].into = self.start_folder_name
                          \o IntStr(self.start_folder_num + made(p) - 1)
                    /\ \E j \in batch(made(p) - 1) :
                          tr[p].name = self.files[j + 1]

\* a move with start number 2 has created two folders and filled both
C8_Witness ==
    /\ MoveCompleted
    /\ LastSelf.start_folder_num = 2
    /\ Len(Created) = 2
    /\ Len(last.trace) >= 6

\* C9: an instance that discovered no files reports file count 0 at any
\* time, and its move raises the empty-input error without creating a
\* folder or relocating a file.
C9_EmptyInput ==
    \A v \in Vars :
        (inst[v].bound /\ inst[v].discovered = <<>>) =>
            /\ info(inst[v]).number_of_files = 0
            /\ (MoveEnded /\ last.var = v) =>
                  /\ last.err = "ValueError: No files to move!"
                  /\ last.trace = <<>>
                  /\ fs = last.pre

\* move was called on an instance that discovered no files
C9_Witness ==
    /\ MoveEnded
    /\ LastSelf.discovered = <<>>
    /\ info(LastSelf).number_of_files = 0

\* C10: a move on an instance (num > 0) on which an earlier move completed
\* raises an error and leaves the file system as it was.
C10_SecondMoveFails ==
    (MoveEnded /\ last.again /\ LastSelf.n > 0) =>
        /\ last.err # "ok"
        /\ fs = last.pre

====
